---- MODULE Spec2Model ----
(***************************************************************************)
(* Campus Energy-Use Dashboard: the ingestion / validation / aggregation   *)
(* pipeline of campus-energy-dashboard.py.                                 *)
(*                                                                         *)
(* Time is counted in units of 1/UnitsPerDay of a day since the epoch      *)
(* (1970-01-01 00:00, a Thursday); a timestamp is a number of such units.  *)
(* A cell of a CSV column is a record [kind, v]:                           *)
(*   kwh:        "num" (a number v), "nan" (an empty cell), "str" (text    *)
(*               that is no number)                                        *)
(*   timestamp:  "text" (text that is a date, v its time), "bad" (text     *)
(*               that is no date); after pd.to_datetime "time" or "nat"    *)
(***************************************************************************)
EXTENDS Integers, Sequences, FiniteSets, TLC

VARIABLES fs, pc, i, combined_df, df, out, daily, weekly, summary, exported

vars == <<fs, pc, i, combined_df, df, out, daily, weekly, summary, exported>>

----------------------------------------------------------------------------
(* Bounds of the model *)

MaxFiles == 2
MaxRows == 3
MaxRecords == 3
MaxDay == 11
UnitsPerDay == 3

(* Calendar constants of pandas' 'W' (= 'W-SUN') rule; weekdays Mon=0..Sun=6 *)
DaysPerWeek == 7
WeekEnd == 6
EpochWeekday == 3

----------------------------------------------------------------------------
(* Cells *)

Num(n) == [kind |-> "num", v |-> n]
NaN == [kind |-> "nan", v |-> 0]
Str == [kind |-> "str", v |-> 0]

DateText(t) == [kind |-> "text", v |-> t]
BadText == [kind |-> "bad", v |-> 0]
Time(t) == [kind |-> "time", v |-> t]
NaT == [kind |-> "nat", v |-> 0]

EmbeddedId == "embedded_id"

Stems == <<"bldg_a", "bldg_b", "bldg_c", "bldg_d", "bldg_e">>

----------------------------------------------------------------------------
(* The data folder the run may find *)

RawRow(ts, k) == [timestamp |-> ts, kwh |-> k]

RawRows ==
    { RawRow(DateText(0), Num(1)), RawRow(DateText(1), Num(2)),
      RawRow(BadText, Num(1)) }

RowSeqs(n) == UNION { [1..k -> RawRows] : k \in 0..n }

File(k, st, c, r) == [stem |-> Stems[k], status |-> st, cols |-> c, rows |-> r]

\* the files a folder may hold at position k, with at most b rows: a file that
\* vanished, one that does not parse, one without a timestamp column, one
\* without a kwh column, one whose kwh is text, one whose kwh cell is empty,
\* one with a Building column of its own, and the files of RawRows
FilesAt(k, b) ==
    { File(k, "notfound", {}, <<>>), File(k, "unreadable", {}, <<>>) }
    \cup
    (IF b >= 1
       THEN { File(k, "ok", {"kwh"}, << RawRow(DateText(0), Num(1)) >>),
              File(k, "ok", {"timestamp"}, << RawRow(DateText(0), Num(1)) >>),
              File(k, "ok", {"timestamp", "kwh"}, << RawRow(DateText(0), Str) >>),
              File(k, "ok", {"timestamp", "kwh"}, << RawRow(DateText(1), NaN) >>),
              File(k, "ok", {"timestamp", "kwh", "Building"},
                   << RawRow(DateText(1), Num(2)) >>) }
       ELSE {})
    \cup
    { File(k, "ok", {"timestamp", "kwh"}, r) : r \in RowSeqs(b) }

RECURSIVE FileSeqs(_, _, _)
\* the sequences of n files, named from position k on, with at most b rows
FileSeqs(k, n, b) ==
    IF n = 0 THEN { <<>> }
    ELSE UNION { { <<f>> \o rest : rest \in FileSeqs(k + 1, n - 1, b - Len(f.rows)) } :
                   f \in FilesAt(k, b) }

\* the data folders of at most n files
Folders(n) ==
    { [exists |-> FALSE, files |-> <<>>] }
    \cup
    { [exists |-> TRUE, files |-> s] :
        s \in UNION { FileSeqs(1, m, MaxRows) : m \in 0..n } }

----------------------------------------------------------------------------
(* load_all_building_data *)

Msg(t, who) == [text |-> t, file |-> who]

\* pd.to_datetime(..., errors='coerce') on one cell
ToDatetime(cell) == IF cell.kind = "text" THEN Time(cell.v) ELSE NaT

ToDatetimeColumn(rows) ==
    [j \in 1..Len(rows) |-> [rows[j] EXCEPT !.timestamp = ToDatetime(rows[j].timestamp)]]

DropNaKeepsAll(rows) == rows

\* df.dropna(subset=['timestamp'])
DropNa(rows) == SelectSeq(rows, LAMBDA r : r.timestamp.kind # "nat")

SetBuildingIfAbsent(file) ==
    [j \in 1..Len(file.rows) |->
        [Building |-> IF "Building" \in file.cols THEN EmbeddedId ELSE file.stem,
         timestamp |-> file.rows[j].timestamp,
         kwh |-> file.rows[j].kwh]]

\* pd.read_csv(file) followed by df['Building'] = file.stem
ReadCsvTagged(file) ==
    [j \in 1..Len(file.rows) |->
        [Building |-> file.stem,
         timestamp |-> file.rows[j].timestamp,
         kwh |-> file.rows[j].kwh]]

RequiredColumnsTimestampOnly(file) == <<"timestamp">>

\* the columns the loop body requires, in the order it checks them
RequiredColumns(file) == <<"timestamp", "kwh">>

\* the first required column the file lacks, "" when it has them all
MissingColumn(file) ==
    LET req == RequiredColumns(file)
        lacking == { k \in 1..Len(req) : req[k] \notin file.cols }
    IN IF lacking = {} THEN ""
       ELSE req[CHOOSE k \in lacking : \A m \in lacking : k <= m]

\* one pass of the loop body: what is appended to combined_df (a sequence of
\* zero or one frames) and what is printed
ReadOne(file) ==
    IF file.status = "notfound"
      THEN [frames |-> <<>>, msgs |-> << Msg("File not found", file.stem) >>]
    ELSE IF file.status = "unreadable"
      THEN [frames |-> <<>>, msgs |-> << Msg("Error reading", file.stem) >>]
    ELSE IF MissingColumn(file) # ""
      THEN [frames |-> <<>>,
            msgs |-> << Msg("Missing " \o MissingColumn(file) \o " column. Skipping file.",
                            file.stem) >>]
    ELSE [frames |-> << DropNa(ToDatetimeColumn(ReadCsvTagged(file))) >>,
          msgs |-> <<>>]

RECURSIVE Flatten(_)
Flatten(frames) ==
    IF frames = <<>> THEN <<>> ELSE Head(frames) \o Flatten(Tail(frames))

RECURSIVE DropDuplicates(_)
DropDuplicates(rows) ==
    IF rows = <<>> THEN <<>>
    ELSE LET init == DropDuplicates(SubSeq(rows, 1, Len(rows) - 1))
             last == rows[Len(rows)]
         IN IF \E j \in 1..Len(init) : init[j] = last THEN init ELSE Append(init, last)

ConcatDeduplicated(frames) ==
    LET flat == DropDuplicates(Flatten(frames)) IN
    [j \in 1..Len(flat) |->
        [index |-> j - 1, Building |-> flat[j].Building,
         timestamp |-> flat[j].timestamp.v, kwh |-> flat[j].kwh]]

\* pd.concat(combined_df, ignore_index=True): the rows in order, indexed 0..n-1
Concat(frames) ==
    LET flat == Flatten(frames) IN
    [j \in 1..Len(flat) |->
        [index |-> j - 1, Building |-> flat[j].Building,
         timestamp |-> flat[j].timestamp.v, kwh |-> flat[j].kwh]]

Perms(n) == { p \in [1..n -> 1..n] : \A a, b \in 1..n : a # b => p[a] # p[b] }

IsSorted(rows) ==
    \A j \in 1..(Len(rows) - 1) : rows[j].timestamp <= rows[j + 1].timestamp

SortValuesUnsorted(rows) == { rows }

\* df.sort_values(by="timestamp") with the default kind='quicksort', which is
\* not a stable sort: every ascending arrangement of the rows is an outcome
SortValues(rows) ==
    { s \in { [j \in 1..Len(rows) |-> rows[p[j]]] : p \in Perms(Len(rows)) } :
        IsSorted(s) }

IsEmptyNever(rows) == FALSE

\* DataFrame.empty
IsEmpty(rows) == Len(rows) = 0

NotComputed == [computed |-> FALSE, table |-> <<>>]
Computed(t) == [computed |-> TRUE, table |-> t]

----------------------------------------------------------------------------
(* Aggregation: calculate_daily_totals, calculate_weekly_aggregates,      *)
(* building_wise_summary                                                   *)

Day == UnitsPerDay

MinOf(S) == CHOOSE x \in S : \A y \in S : x <= y
MaxOf(S) == CHOOSE x \in S : \A y \in S : y <= x

Timestamps(rows) == { rows[j].timestamp : j \in 1..Len(rows) }

HasStr(rows) == \E j \in 1..Len(rows) : rows[j].kwh.kind = "str"

RECURSIVE SumCells(_)
\* the grouped sum of a bucket's kwh cells: empty cells are skipped, an empty
\* bucket sums to 0, text does not add up to a number
SumCells(cells) ==
    IF cells = <<>> THEN Num(0)
    ELSE LET acc == SumCells(Tail(cells))
             c == Head(cells)
         IN IF c.kind = "nan" THEN acc
            ELSE IF c.kind = "str" \/ acc.kind = "str" THEN Str
            ELSE Num(acc.v + c.v)

KwhOf(rows) == [j \in 1..Len(rows) |-> rows[j].kwh]

DailyEdgesNoFill(rows) ==
    LET first == (MinOf(Timestamps(rows)) \div Day) * Day
        last == (MaxOf(Timestamps(rows)) \div Day) * Day + Day
    IN IF last - first = Day THEN <<first, last>> ELSE <<first, last - Day, last>>

\* the bin edges of resample('D'): midnights from the first record's day to
\* the midnight after the last record
DailyEdges(rows) ==
    LET first == (MinOf(Timestamps(rows)) \div Day) * Day
        last == (MaxOf(Timestamps(rows)) \div Day) * Day + Day
    IN [k \in 1..((last - first) \div Day + 1) |-> first + (k - 1) * Day]

\* resample('D').sum(): bins closed on the left, labelled by their left edge
DailyTable(rows) ==
    IF rows = <<>> THEN <<>>
    ELSE LET edges == DailyEdges(rows) IN
         [k \in 1..(Len(edges) - 1) |->
            [bucket |-> edges[k],
             value |-> SumCells(KwhOf(SelectSeq(rows,
                          LAMBDA r : edges[k] <= r.timestamp /\ r.timestamp < edges[k + 1])))]]

Weekday(d) == (d + EpochWeekday) % DaysPerWeek

\* d - Week(weekday=6): the last Sunday strictly before day d
MinusWeek(d) ==
    IF Weekday(d) = WeekEnd THEN d - DaysPerWeek
    ELSE d - ((Weekday(d) - WeekEnd) % DaysPerWeek)

\* d + Week(weekday=6): the first Sunday strictly after day d
PlusWeek(d) ==
    IF Weekday(d) = WeekEnd THEN d + DaysPerWeek
    ELSE d + ((WeekEnd - Weekday(d)) % DaysPerWeek)

\* date_range(first, last, freq='W'): the Sundays (as days) of the binner
WeeklyBinner(rows) ==
    LET first == MinusWeek(MinOf(Timestamps(rows)) \div Day)
        last == PlusWeek(MaxOf(Timestamps(rows)) \div Day)
    IN [k \in 1..((last - first) \div DaysPerWeek + 1) |-> first + (k - 1) * DaysPerWeek]

\* _adjust_bin_edges: an edge is moved to the last instant of its day
EdgeOf(d) == d * Day + Day - 1

\* the binner after _adjust_bin_edges dropped a last bin past the data
WeeklyBins(rows) ==
    LET binner == WeeklyBinner(rows)
        n == Len(binner)
    IN IF EdgeOf(binner[n - 1]) > MaxOf(Timestamps(rows))
         THEN SubSeq(binner, 1, n - 1) ELSE binner

\* resample('W').sum(): bins closed on the right, labelled by their right edge
WeeklyTable(rows) ==
    IF rows = <<>> THEN <<>>
    ELSE LET binner == WeeklyBins(rows) IN
         [k \in 1..(Len(binner) - 1) |->
            [bucket |-> binner[k + 1] * Day,
             value |-> SumCells(KwhOf(SelectSeq(rows,
                          LAMBDA r : EdgeOf(binner[k]) < r.timestamp
                                     /\ r.timestamp <= EdgeOf(binner[k + 1]))))]]

\* what a resample(...).sum() call can do: with text among the kwh cells the
\* addition raises or joins text, depending on the cells a bucket mixes
ResampleOutcomes(rows, table) ==
    IF HasStr(rows)
      THEN { [raised |-> TRUE, table |-> <<>>], [raised |-> FALSE, table |-> table] }
      ELSE { [raised |-> FALSE, table |-> table] }

RECURSIVE Gcd(_, _)
Gcd(a, b) == IF b = 0 THEN a ELSE Gcd(b, a % b)

\* a float, kept exact: n/d in lowest terms, or NaN
Rat(n, d) == LET g == Gcd(n, d) IN [kind |-> "num", n |-> n \div g, d |-> d \div g]
RatNaN == [kind |-> "nan", n |-> 0, d |-> 1]

Buildings(rows) == { rows[j].Building : j \in 1..Len(rows) }

RECURSIVE SumNums(_)
SumNums(S) == IF S = {} THEN 0 ELSE LET x == CHOOSE x \in S : TRUE IN x[2] + SumNums(S \ {x})

\* .agg(Mean='mean', Min='min', Max='max', Total='sum') of one group: empty
\* cells are skipped by all four; the sum of no value is 0, the others NaN
Stats(rows, b) ==
    LET pos == { j \in 1..Len(rows) :
                   rows[j].Building = b /\ rows[j].kwh.kind = "num" }
        vals == { rows[j].kwh.v : j \in pos }
        total == SumNums({ <<j, rows[j].kwh.v>> : j \in pos })
    IN [Mean |-> IF pos = {} THEN RatNaN ELSE Rat(total, Cardinality(pos)),
        Min |-> IF pos = {} THEN RatNaN ELSE Rat(MinOf(vals), 1),
        Max |-> IF pos = {} THEN RatNaN ELSE Rat(MaxOf(vals), 1),
        Total |-> Rat(total, 1)]

\* df.groupby("Building")['kwh'].agg(...)
SummaryTable(rows) == [b \in Buildings(rows) |-> Stats(rows, b)]

----------------------------------------------------------------------------
(* The run: main() *)

Init ==
    /\ fs \in Folders(MaxFiles)
    /\ pc = "start"
    /\ i = 0
    /\ combined_df = <<>>
    /\ df = <<>>
    /\ out = <<>>
    /\ daily = NotComputed
    /\ weekly = NotComputed
    /\ summary = NotComputed
    /\ exported = FALSE

\* lines 39-50: the folder and its *.csv files
Discover ==
    /\ pc = "start"
    /\ IF ~fs.exists
         THEN /\ out' = Append(out, Msg("Data folder not found.", ""))
              /\ pc' = "main"
         ELSE IF fs.files = <<>>
         THEN /\ out' = Append(out, Msg("No CSV files found inside /data/.", ""))
              /\ pc' = "main"
         ELSE /\ out' = Append(out, Msg("Starting data ingestion...", ""))
              /\ pc' = "loop"
    /\ i' = 1
    /\ combined_df' = <<>>
    /\ df' = <<>>
    /\ UNCHANGED <<fs, daily, weekly, summary, exported>>

\* lines 52-76: one pass of the loop over all_files
ReadFile ==
    /\ pc = "loop"
    /\ i <= Len(fs.files)
    /\ LET r == ReadOne(fs.files[i]) IN
         /\ combined_df' = combined_df \o r.frames
         /\ out' = out \o r.msgs
    /\ i' = i + 1
    /\ UNCHANGED <<fs, pc, df, daily, weekly, summary, exported>>

\* lines 78-86: concatenate, sort, return
Merge ==
    /\ pc = "loop"
    /\ i > Len(fs.files)
    /\ IF combined_df = <<>>
         THEN /\ out' = Append(out, Msg("No valid files were loaded.", ""))
              /\ df' = <<>>
         ELSE /\ out' = Append(out, Msg("Data ingestion completed.", ""))
              /\ df' \in SortValues(Concat(combined_df))
    /\ pc' = "main"
    /\ UNCHANGED <<fs, i, combined_df, daily, weekly, summary, exported>>

\* lines 252-255
MainCheck ==
    /\ pc = "main"
    /\ IF IsEmpty(df)
         THEN /\ out' = Append(out, Msg("No data available. Ending program.", ""))
              /\ pc' = "nodata"
         ELSE /\ out' = out
              /\ pc' = "daily"
    /\ UNCHANGED <<fs, i, combined_df, df, daily, weekly, summary, exported>>

\* line 257
CalculateDaily ==
    /\ pc = "daily"
    /\ \E o \in ResampleOutcomes(df, DailyTable(df)) :
         IF o.raised
           THEN pc' = "fault" /\ daily' = daily
           ELSE pc' = "weekly" /\ daily' = Computed(o.table)
    /\ UNCHANGED <<fs, i, combined_df, df, out, weekly, summary, exported>>

\* line 258
CalculateWeekly ==
    /\ pc = "weekly"
    /\ \E o \in ResampleOutcomes(df, WeeklyTable(df)) :
         IF o.raised
           THEN pc' = "fault" /\ weekly' = weekly
           ELSE pc' = "summary" /\ weekly' = Computed(o.table)
    /\ UNCHANGED <<fs, i, combined_df, df, out, daily, summary, exported>>

\* line 259: the mean of a group holding text raises
BuildingSummary ==
    /\ pc = "summary"
    /\ IF HasStr(df)
         THEN pc' = "fault" /\ summary' = summary
         ELSE pc' = "report" /\ summary' = Computed(SummaryTable(df))
    /\ UNCHANGED <<fs, i, combined_df, df, out, daily, weekly, exported>>

\* lines 261-273: the reports, the dashboard and the export are handed the
\* tables; only their being reached is kept
ReportAndExport ==
    /\ pc = "report"
    /\ exported' = TRUE
    /\ out' = Append(out, Msg("Project completed successfully.", ""))
    /\ pc' = "done"
    /\ UNCHANGED <<fs, i, combined_df, df, daily, weekly, summary>>

Next ==
    \/ Discover
    \/ ReadFile
    \/ Merge
    \/ MainCheck
    \/ CalculateDaily
    \/ CalculateWeekly
    \/ BuildingSummary
    \/ ReportAndExport

Spec == Init /\ [][Next]_vars

----------------------------------------------------------------------------
(* The aggregation functions applied to a merged dataset given directly *)

FirstSunday == (WeekEnd - EpochWeekday) % DaysPerWeek

\* two instants of the epoch day, an instant inside a Sunday, the last
\* instant of that Sunday, the Monday midnight after it, and a late midnight
TimeSamples ==
    { 0, 1, FirstSunday * Day + 1, FirstSunday * Day + Day - 1,
      (FirstSunday + 1) * Day, MaxDay * Day }

Records ==
    { [Building |-> Stems[1], timestamp |-> t, kwh |-> k] :
        t \in TimeSamples, k \in {Num(1), Num(2), NaN} }
    \cup
    { [Building |-> Stems[2], timestamp |-> t, kwh |-> Num(1)] : t \in TimeSamples }
    \cup
    { [Building |-> Stems[1], timestamp |-> 0, kwh |-> Str] }

RECURSIVE SortedSeqs(_)
\* the ascending sequences of n records
SortedSeqs(n) ==
    IF n = 0 THEN { <<>> }
    ELSE LET shorter == SortedSeqs(n - 1) IN
         { Append(p[1], p[2]) :
             p \in { q \in shorter \X Records :
                       q[1] = <<>> \/ q[1][Len(q[1])].timestamp <= q[2].timestamp } }

\* the datasets of 1 to n records load_all_building_data may return
Datasets(n) ==
    { [j \in 1..Len(s) |->
          [index |-> j - 1, Building |-> s[j].Building,
           timestamp |-> s[j].timestamp, kwh |-> s[j].kwh]] :
        s \in UNION { SortedSeqs(m) : m \in 1..n } }

InitAgg ==
    /\ fs = [exists |-> TRUE, files |-> <<>>]
    /\ pc = "daily"
    /\ i = 1
    /\ combined_df = <<>>
    /\ df \in Datasets(MaxRecords)
    /\ out = <<>>
    /\ daily = NotComputed
    /\ weekly = NotComputed
    /\ summary = NotComputed
    /\ exported = FALSE

NextAgg ==
    \/ CalculateDaily
    \/ CalculateWeekly
    \/ BuildingSummary

SpecAgg == InitAgg /\ [][NextAgg]_vars

----------------------------------------------------------------------------
(* What the properties below speak of, read off the input folder *)

\* load_all_building_data has returned
Loaded == pc \notin {"start", "loop"}

\* the loop has passed file k
Processed(k) == pc # "start" /\ k < i

HasRequiredColumns(f) == f.status = "ok" /\ {"timestamp", "kwh"} \subseteq f.cols

LacksColumn(f) == f.status = "ok" /\ ~({"timestamp", "kwh"} \subseteq f.cols)

FirstLacking(f) == IF "timestamp" \notin f.cols THEN "timestamp" ELSE "kwh"

\* the rows of f whose timestamp is a date
ParsingRows(f) == { j \in 1..Len(f.rows) : f.rows[j].timestamp.kind = "text" }

NthOf(S, n) == CHOOSE x \in S : Cardinality({ y \in S : y < x }) = n - 1

\* what file f owes the merged dataset
ExpectedFrame(f) ==
    IF ~HasRequiredColumns(f) THEN <<>>
    ELSE [n \in 1..Cardinality(ParsingRows(f)) |->
            [Building |-> f.stem,
             timestamp |-> Time(f.rows[NthOf(ParsingRows(f), n)].timestamp.v),
             kwh |-> f.rows[NthOf(ParsingRows(f), n)].kwh]]

RECURSIVE ExpectedUpTo(_)
\* the rows of files 1..k in ingestion order
ExpectedUpTo(k) ==
    IF k = 0 THEN <<>> ELSE ExpectedUpTo(k - 1) \o ExpectedFrame(fs.files[k])

FrameNo(k) == Cardinality({ m \in 1..k : HasRequiredColumns(fs.files[m]) })

RowsOf(rows, b) == { j \in 1..Len(rows) : rows[j].Building = b }

RECURSIVE SumOver(_, _)
\* the sum of f[j].v over the j of S whose cell is a number
SumOver(f, S) ==
    IF S = {} THEN 0
    ELSE LET j == CHOOSE j \in S : TRUE
         IN (IF f[j].kind = "num" THEN f[j].v ELSE 0) + SumOver(f, S \ {j})

ValuesOf(table) == [k \in 1..Len(table) |-> table[k].value]

Printed(m) == \E k \in 1..Len(out) : out[k] = m

----------------------------------------------------------------------------
(* Properties of the run (Spec) *)

\* C1 (as amended): the dataset load_all_building_data returns holds exactly
\* the concatenated rows, each once, in ascending order of timestamp; nothing
\* is said of the order of rows with equal timestamps.
C1_SortedPermutation ==
    (Loaded /\ combined_df # <<>>) =>
        LET c == Concat(combined_df) IN
        /\ Len(df) = Len(c)
        /\ \A a, b \in 1..Len(df) : a < b => df[a].timestamp <= df[b].timestamp
        /\ \A a, b \in 1..Len(df) : a # b => df[a].index # df[b].index
        /\ \A a \in 1..Len(df) :
              df[a].index \in 0..(Len(c) - 1) /\ df[a] = c[df[a].index + 1]

\* C1 (as claimed): the returned dataset is sorted by timestamp and rows with
\* equal timestamps keep their ingestion order (the sort is stable).
C1_StableSort ==
    Loaded =>
        /\ \A a, b \in 1..Len(df) : a < b => df[a].timestamp <= df[b].timestamp
        /\ \A a, b \in 1..Len(df) :
              (a < b /\ df[a].timestamp = df[b].timestamp) => df[a].index < df[b].index

C1_Witness ==
    /\ pc = "main"
    /\ \E a, b \in 1..Len(df) :
          a < b /\ df[a].timestamp = df[b].timestamp /\ df[a].Building # df[b].Building
    /\ \E a, b \in 1..Len(df) :
          df[a].timestamp < df[b].timestamp /\ df[a].index > df[b].index

\* C2: the run never ends in an unhandled fault, whatever the folder holds.
C2_NoUnhandledFault == pc # "fault"

\* C3: a file the loop has passed that lacks the timestamp or the kwh column
\* has no row in combined_df or in the returned dataset, its missing column
\* was printed with its name, and the loop went on: every file is passed
\* before the function returns and every file with both columns has its frame.
C3_RejectedSource ==
    /\ \A k \in 1..Len(fs.files) :
          (Processed(k) /\ LacksColumn(fs.files[k])) =>
              /\ RowsOf(Flatten(combined_df), fs.files[k].stem) = {}
              /\ RowsOf(df, fs.files[k].stem) = {}
              /\ Printed(Msg("Missing " \o FirstLacking(fs.files[k])
                                \o " column. Skipping file.", fs.files[k].stem))
    /\ pc # "start" => Len(combined_df) = FrameNo(i - 1)
    /\ Loaded => i = Len(fs.files) + 1

C3_Witness ==
    /\ pc = "done"
    /\ Len(fs.files) >= 2
    /\ LacksColumn(fs.files[1]) /\ "kwh" \notin fs.files[1].cols
    /\ RowsOf(df, fs.files[2].stem) # {}

\* C4: when the folder is absent, holds no csv file, or no file yields a
\* row, no table is ever computed and nothing is exported; the function
\* returns an empty dataset and main stops after its message.
NoUsableData ==
    \/ ~fs.exists
    \/ \A k \in 1..Len(fs.files) : ExpectedFrame(fs.files[k]) = <<>>

C4_NoDataTermination ==
    NoUsableData =>
        /\ pc \in {"start", "loop", "main", "nodata"}
        /\ ~daily.computed /\ ~weekly.computed /\ ~summary.computed /\ ~exported
        /\ pc = "main" => Len(df) = 0
        /\ pc = "nodata" =>
              /\ out[Len(out)] = Msg("No data available. Ending program.", "")
              /\ ~ENABLED Next

C4_Witness ==
    /\ pc = "nodata"
    /\ Len(fs.files) >= 2
    /\ \E k \in 1..Len(fs.files) :
          HasRequiredColumns(fs.files[k]) /\ Len(fs.files[k].rows) >= 2
    /\ \E k \in 1..Len(fs.files) : LacksColumn(fs.files[k])

\* C5: a file with both columns that the loop has passed contributes exactly
\* its rows whose timestamp is a date, in their order: N rows of which k do
\* not parse leave N - k rows, in its frame and in the returned dataset.
C5_TimestampFilter ==
    \A k \in 1..Len(fs.files) :
        (Processed(k) /\ HasRequiredColumns(fs.files[k])) =>
            LET f == fs.files[k]
                bad == { j \in 1..Len(f.rows) : f.rows[j].timestamp.kind = "bad" }
            IN /\ FrameNo(k) <= Len(combined_df)
               /\ combined_df[FrameNo(k)] = ExpectedFrame(f)
               /\ Len(combined_df[FrameNo(k)]) = Len(f.rows) - Cardinality(bad)
               /\ Loaded =>
                     Cardinality(RowsOf(df, f.stem)) = Len(f.rows) - Cardinality(bad)

C5_Witness ==
    /\ pc = "done"
    /\ \E k \in 1..Len(fs.files) :
          /\ HasRequiredColumns(fs.files[k])
          /\ Len(fs.files[k].rows) = 3
          /\ Cardinality(ParsingRows(fs.files[k])) = 2
          /\ Cardinality(RowsOf(df, fs.files[k].stem)) = 2

\* C9: nothing is deduplicated: the returned dataset has as many rows as the
\* files owe it together, and once the tables are computed the daily totals,
\* the weekly totals and the buildings' Totals each add up to the kwh of all
\* those rows, a building's Total to the kwh of all rows of its file.
C9_NoDeduplication ==
    /\ (Loaded /\ fs.exists) => Len(df) = Len(ExpectedUpTo(Len(fs.files)))
    /\ summary.computed =>
          LET all == KwhOf(ExpectedUpTo(Len(fs.files)))
              sum == SumOver(all, 1..Len(all))
          IN /\ SumOver(ValuesOf(daily.table), 1..Len(daily.table)) = sum
             /\ SumOver(ValuesOf(weekly.table), 1..Len(weekly.table)) = sum
             /\ \A k \in 1..Len(fs.files) :
                   LET own == KwhOf(ExpectedFrame(fs.files[k])) IN
                   own # <<>> =>
                       /\ fs.files[k].stem \in DOMAIN summary.table
                       /\ summary.table[fs.files[k].stem].Total.n = SumOver(own, 1..Len(own))
                       /\ summary.table[fs.files[k].stem].Total.d = 1

C9_Witness ==
    /\ pc = "done"
    /\ \E a, b \in 1..Len(df) :
          /\ a # b
          /\ df[a].Building = df[b].Building
          /\ df[a].timestamp = df[b].timestamp
          /\ df[a].kwh = Num(1) /\ df[b].kwh = Num(1)
          /\ summary.table[df[a].Building].Total.n >= 2
          /\ daily.table[1].value.v >= 2

\* C10: every row of the returned dataset carries the stem of the file it
\* was read from, whatever Building column the file has; a single file of N
\* rows that all parse gives N rows, all carrying its stem.
C10_BuildingFromStem ==
    (Loaded /\ fs.exists) =>
        LET exp == ExpectedUpTo(Len(fs.files)) IN
        /\ \A a \in 1..Len(df) :
              /\ df[a].index + 1 \in 1..Len(exp)
              /\ df[a].Building = exp[df[a].index + 1].Building
              /\ df[a].Building # EmbeddedId
        /\ (/\ Len(fs.files) = 1
            /\ HasRequiredColumns(fs.files[1])
            /\ Cardinality(ParsingRows(fs.files[1])) = Len(fs.files[1].rows)) =>
               /\ Len(df) = Len(fs.files[1].rows)
               /\ \A a \in 1..Len(df) : df[a].Building = fs.files[1].stem

C10_Witness ==
    /\ pc = "done"
    /\ \E k \in 1..Len(fs.files) :
          /\ "Building" \in fs.files[k].cols
          /\ RowsOf(df, fs.files[k].stem) # {}
    /\ Cardinality(Buildings(df)) = 2

----------------------------------------------------------------------------
(* Properties of the aggregation functions (SpecAgg) *)

DayNo(t) == t \div UnitsPerDay

\* weeks run Monday to Sunday; week 0 holds the epoch day
WeekNo(t) == (DayNo(t) + EpochWeekday) \div DaysPerWeek

\* what a bucket holding the records S of df sums to
BucketValue(S, v) ==
    IF \E j \in S : df[j].kwh.kind = "str" THEN v.kind = "str"
    ELSE v = Num(SumOver(KwhOf(df), S))

\* C6: the daily totals have exactly one entry for each day from the day of
\* the earliest record to the day of the latest, in order; an entry is the
\* sum of the kwh of the records of that day, of all buildings, and 0 for a
\* day without record (an empty kwh cell adds nothing).
C6_DailyTotals ==
    daily.computed =>
        LET lo == DayNo(df[1].timestamp)
            hi == DayNo(df[Len(df)].timestamp)
            t == daily.table
        IN /\ Len(t) = hi - lo + 1
           /\ \A k \in 1..Len(t) :
                 /\ t[k].bucket = (lo + k - 1) * UnitsPerDay
                 /\ BucketValue({ j \in 1..Len(df) : DayNo(df[j].timestamp) = lo + k - 1 },
                                t[k].value)

C6_Witness ==
    /\ daily.computed
    /\ Len(daily.table) >= 3
    /\ \E k \in 2..(Len(daily.table) - 1) : daily.table[k].value = Num(0)
    /\ daily.table[1].value = Num(3)
    /\ \E a, b \in 1..Len(df) :
          /\ df[a].Building # df[b].Building
          /\ DayNo(df[a].timestamp) = DayNo(df[b].timestamp)
          /\ df[a].timestamp # df[b].timestamp

\* the last instant of a Sunday
EndsWeek(t) == Weekday(DayNo(t)) = WeekEnd /\ t % UnitsPerDay = UnitsPerDay - 1

\* the weekly table t has one entry for each week lo..hi, labelled by its
\* Sunday and holding the sum of the week's records, and every record lies
\* in the week of exactly one entry
WeeklyTableOver(t, lo, hi) ==
    /\ Len(t) = hi - lo + 1
    /\ \A k \in 1..Len(t) :
          /\ t[k].bucket =
                ((lo + k - 1) * DaysPerWeek + WeekEnd - EpochWeekday) * UnitsPerDay
          /\ BucketValue({ j \in 1..Len(df) : WeekNo(df[j].timestamp) = lo + k - 1 },
                         t[k].value)
    /\ \A j \in 1..Len(df) :
          Cardinality({ k \in 1..Len(t) :
              /\ t[k].bucket - DaysPerWeek * UnitsPerDay + UnitsPerDay <= df[j].timestamp
              /\ df[j].timestamp < t[k].bucket + UnitsPerDay }) = 1

\* C7: the weekly totals have exactly one entry for each Monday-to-Sunday
\* week from the week of the earliest record to the week of the latest, in
\* order, labelled by its Sunday; an entry is the sum of the kwh of the
\* records of that week, of all buildings, and 0 for a week without record;
\* every record is counted in exactly one entry.
C7_WeeklyTotalsToLatestWeek ==
    weekly.computed =>
        WeeklyTableOver(weekly.table, WeekNo(df[1].timestamp),
                        WeekNo(df[Len(df)].timestamp))

\* What resample('W') gives instead: the entries of C7, and one more entry
\* of 0 for the week after the latest record when that record lies on the
\* last instant of a Sunday.
WeeklyTotalsWithTrailingWeek ==
    weekly.computed =>
        WeeklyTableOver(weekly.table, WeekNo(df[1].timestamp),
                        WeekNo(df[Len(df)].timestamp)
                          + (IF EndsWeek(df[Len(df)].timestamp) THEN 1 ELSE 0))

\* C8: the summary has exactly the buildings of the dataset; for each, Total
\* is the sum, Min the smallest and Max the largest of its kwh values and
\* Mean the Total divided by their number; for a dataset of one record Mean,
\* Min, Max and Total are all that record's value.
C8_BuildingSummary ==
    summary.computed =>
        /\ DOMAIN summary.table = { df[j].Building : j \in 1..Len(df) }
        /\ \A b \in DOMAIN summary.table :
              LET st == summary.table[b]
                  vals == { j \in RowsOf(df, b) : df[j].kwh.kind = "num" }
              IN /\ st.Total.kind = "num" /\ st.Total.d = 1
                 /\ st.Total.n = SumOver(KwhOf(df), vals)
                 /\ vals # {} =>
                       /\ st.Min.kind = "num" /\ st.Min.d = 1
                       /\ st.Max.kind = "num" /\ st.Max.d = 1
                       /\ \E j \in vals : df[j].kwh.v = st.Min.n
                       /\ \E j \in vals : df[j].kwh.v = st.Max.n
                       /\ \A j \in vals : st.Min.n <= df[j].kwh.v /\ df[j].kwh.v <= st.Max.n
                       /\ st.Mean.kind = "num"
                       /\ st.Mean.n * Cardinality(vals) = st.Total.n * st.Mean.d
        /\ Len(df) = 1 =>
              LET st == summary.table[df[1].Building] IN
              st.Mean = st.Total /\ st.Min = st.Total /\ st.Max = st.Total

\* What the summary gives for a dataset of one record: the four statistics
\* are that record's kwh when it is a number; for an empty kwh cell Total is
\* 0 and Mean, Min and Max are NaN.
SummaryOfOneRecord ==
    (summary.computed /\ Len(df) = 1) =>
        LET st == summary.table[df[1].Building] IN
        IF df[1].kwh.kind = "num"
          THEN st.Mean = st.Total /\ st.Min = st.Total /\ st.Max = st.Total
               /\ st.Total = Rat(df[1].kwh.v, 1)
          ELSE st.Total = Rat(0, 1) /\ st.Mean = RatNaN /\ st.Min = RatNaN /\ st.Max = RatNaN

====
